---- MODULE Spec2Model ----
(***************************************************************************)
(* Model of example.py, the streaming TAPIR point-tracking demonstration:  *)
(* the pure helpers (preprocess_frame, sample_random_points,               *)
(* postprocess_occlusions, draw_points), the two model wrappers            *)
(* (online_model_init, online_model_predict) and the __main__ loop.        *)
(*                                                                         *)
(* Real numbers are exact rationals <<n, d>> with d > 0 (float rounding is *)
(* not modelled).  A logit is the log of an odds ratio p : q, written      *)
(* <<p, q>>: <<0, q>> is -infinity, <<p, 0>> is +infinity, <<1, 1>> is 0.  *)
(* Its sigmoid is exactly p / (p + q).                                     *)
(*                                                                         *)
(* Python objects that are shared by reference (frames, tensors, numpy     *)
(* views) live in a heap; variables and list entries hold addresses.       *)
(***************************************************************************)
EXTENDS Integers, Sequences, FiniteSets, TLC

\* ---------------------------------------------------------------- bounds
\* Largest number of frames in the video file.
MaxFrames == 3
\* Side of the query grid of the run: num_points = GridSide * GridSide.
GridSide == 2
\* Working resolution of the run (resize_height = resize_width = ResizeDim).
ResizeDim == 2
\* Pure-function inputs: frame and target sides range over 1..MaxDim.
MaxDim == 2
\* Pure-function inputs: num_points ranges over 0..MaxPoints.
MaxPoints == 5
\* Pure-function inputs: odds of a logit range over 0..MaxOdds.
MaxOdds == 2
\* Number of random colour tables the run may draw.
NumPalettes == 2

\* ------------------------------------------------------------- rationals
RECURSIVE GCD(_, _)
GCD(a, b) == IF b = 0 THEN a ELSE GCD(b, a % b)

Abs(n) == IF n < 0 THEN -n ELSE n

\* <<n, d>> in lowest terms, d > 0.
Norm(r) ==
    LET g == GCD(Abs(r[1]), r[2])
    IN  IF g = 0 THEN r ELSE <<r[1] \div g, r[2] \div g>>

RMul(a, b) == Norm(<<a[1] * b[1], a[2] * b[2]>>)
ROneMinus(a) == Norm(<<a[2] - a[1], a[2]>>)
RGreater(a, b) == a[1] * b[2] > b[1] * a[2]
RLeq(a, b) == a[1] * b[2] <= b[1] * a[2]

\* Python int(): truncation toward zero.
PyInt(r) ==
    IF r[1] >= 0 THEN r[1] \div r[2] ELSE -((-r[1]) \div r[2])

\* int(np.sqrt(n)) for n >= 0.
ISqrt(n) == CHOOSE k \in 0..n : k * k <= n /\ (k + 1) * (k + 1) > n

Min(a, b) == IF a < b THEN a ELSE b

\* ------------------------------------------------------ preprocess_frame
\* An image is rows of columns of channel triples, samples in 0..255.
ImgH(img) == Len(img)
ImgW(img) == IF Len(img) = 0 THEN 0 ELSE Len(img[1])

\* cv2.cvtColor(frame, cv2.COLOR_BGR2RGB): the channel order is reversed.
CvtColorBGR2RGB(img) ==
    [r \in 1..ImgH(img) |->
        [c \in 1..ImgW(img) |-> <<img[r][c][3], img[r][c][2], img[r][c][1]>>]]

\* Bilinear source position of destination index d (0-based) along an axis
\* of S source and D destination samples, pixel centres aligned:
\* (d + 1/2) * S / D - 1/2, clamped to [0, S - 1], as numerator over 2 * D.
SrcNum(d, S, D) ==
    LET n == (2 * d + 1) * S - D
    IN  IF n < 0 THEN 0
        ELSE IF n > (S - 1) * 2 * D THEN (S - 1) * 2 * D ELSE n

\* cv2.resize(img, dsize) with the default bilinear interpolation.  dsize is
\* (width, height) in OpenCV's convention: the result has dsize[2] rows and
\* dsize[1] columns.  Samples are rounded to the nearest integer.
CvResize(img, dsize) ==
    LET S_h == ImgH(img)
        S_w == ImgW(img)
        D_w == dsize[1]
        D_h == dsize[2]
        Px(r, c, ch) ==
            LET ny == SrcNum(r - 1, S_h, D_h)
                nx == SrcNum(c - 1, S_w, D_w)
                y0 == ny \div (2 * D_h)
                x0 == nx \div (2 * D_w)
                fy == ny % (2 * D_h)
                fx == nx % (2 * D_w)
                y1 == Min(y0 + 1, S_h - 1)
                x1 == Min(x0 + 1, S_w - 1)
                den == (2 * D_h) * (2 * D_w)
                v == (2 * D_h - fy) * (2 * D_w - fx) * img[y0 + 1][x0 + 1][ch]
                     + (2 * D_h - fy) * fx * img[y0 + 1][x1 + 1][ch]
                     + fy * (2 * D_w - fx) * img[y1 + 1][x0 + 1][ch]
                     + fy * fx * img[y1 + 1][x1 + 1][ch]
            IN  (2 * v + den) \div (2 * den)
    IN  [r \in 1..D_h |-> [c \in 1..D_w |-> <<Px(r, c, 1), Px(r, c, 2), Px(r, c, 3)>>]]

\* input / 255 * 2 - 1 on one sample.
Normalize255(x) == Norm(<<2 * x - 255, 255>>)

\* preprocess_frame(frame, resize): colour conversion, resize, batch axis,
\* normalisation, permute(0, 3, 1, 2).  The result is indexed
\* [batch][channel][row][column].
preprocess_frame(frame, resize) ==
    LET rgb == CvtColorBGR2RGB(frame)
        small == CvResize(rgb, resize)
    IN  << [ch \in 1..3 |->
              [r \in 1..ImgH(small) |->
                 [c \in 1..ImgW(small) |-> Normalize255(small[r][c][ch])]]] >>

\* tensor.shape of a 4-axis tensor.
Shape4(t) == <<Len(t), Len(t[1]), Len(t[1][1]), Len(t[1][1][1])>>

\* ------------------------------------------------- sample_random_points
\* np.linspace(0, stop, n).astype(np.int32), stop >= 0: n evenly spaced
\* values, truncated.
Linspace(stop, n) ==
    [j \in 1..n |-> IF n = 1 THEN 0 ELSE ((j - 1) * stop) \div (n - 1)]

\* np.random.randint(0, frame_max_idx + 1, (num_points, 1)): the time columns
\* that can be drawn.
TimeColumns(frame_max_idx, n) == [1..n -> 0..frame_max_idx]

\* sample_random_points with the random time column t given.  The grid has
\* int(sqrt(num_points)) points per axis; np.concatenate raises ValueError
\* when the columns differ in length.
sample_random_points(t, height, width, num_points) ==
    LET n == ISqrt(num_points)
        xs == Linspace(width - 1, n)
        ys == Linspace(height - 1, n)
        \* np.meshgrid(x, y) flattened row-major
        xf == [k \in 1..(n * n) |-> xs[((k - 1) % n) + 1]]
        yf == [k \in 1..(n * n) |-> ys[((k - 1) \div n) + 1]]
    IN  IF Len(t) # n * n THEN [error |-> "ValueError", points |-> <<>>]
        ELSE [error |-> "", points |-> [k \in 1..(n * n) |-> <<t[k], yf[k], xf[k]>>]]

\* ------------------------------------------------ postprocess_occlusions
\* F.sigmoid of a logit given as odds p : q.
Sigmoid(l) == Norm(<<l[1], l[1] + l[2]>>)

Half == <<1, 2>>

Visible_NotStrict(o, e) ==
    RLeq(Half, RMul(ROneMinus(Sigmoid(o)), ROneMinus(Sigmoid(e))))

\* One element of postprocess_occlusions.
Visible(o, e) ==
    RGreater(RMul(ROneMinus(Sigmoid(o)), ROneMinus(Sigmoid(e))), Half)

postprocess_occlusions(occlusions, expected_dist) ==
    [i \in 1..Len(occlusions) |-> Visible(occlusions[i], expected_dist[i])]

\* ----------------------------------------------------------- draw_points
\* Radius argument of cv2.circle.
CircleRadius == 5

\* One cv2.circle call for point i (the field point records which loop
\* iteration drew it).
Circle(i, points, colors) ==
    [point |-> i,
     center |-> <<PyInt(points[i][1]), PyInt(points[i][2])>>,
     radius |-> CircleRadius,
     color |-> colors[i]]

RECURSIVE DrawFrom(_, _, _, _, _)
DrawFrom_All(i, marks, points, visible, colors) ==
    IF i > Len(points) THEN marks
    ELSE DrawFrom(i + 1, Append(marks, Circle(i, points, colors)),
                  points, visible, colors)

\* The loop of draw_points from index i on: invisible points are skipped.
DrawFrom(i, marks, points, visible, colors) ==
    IF i > Len(points) THEN marks
    ELSE IF ~visible[i] THEN DrawFrom(i + 1, marks, points, visible, colors)
    ELSE DrawFrom(i + 1, Append(marks, Circle(i, points, colors)),
                  points, visible, colors)

\* draw_points(frame, points, visible, colors): the circles added to the
\* frame, drawn in place.
draw_points(marks, points, visible, colors) ==
    DrawFrom(1, marks, points, visible, colors)

\* ------------------------------------------------ the TAPIR model (tapnet)
\* TAPIR(pyramid_level=1, ...): the model keeps pyramid_level + 1 resolutions.
pyramid_level == 1
\* query_chunk_size passed to estimate_trajectories.
query_chunk_size == 64

RECURSIVE SumSeq(_)
SumSeq(s) == IF Len(s) = 0 THEN 0 ELSE s[1] + SumSeq(Tail(s))

\* A deterministic summary of a preprocessed frame, standing for the features
\* the encoder extracts from it.
Digest(t) ==
    SumSeq([ch \in 1..Len(t[1]) |->
        SumSeq([r \in 1..Len(t[1][ch]) |->
            SumSeq([c \in 1..Len(t[1][ch][r]) |->
                IF RGreater(t[1][ch][r][c], <<0, 1>>) THEN 1 ELSE 0])])])

\* model.get_feature_grids(frame)
get_feature_grids(t) ==
    [feature_grid |-> Digest(t), hires_feats |-> Digest(t) + 1]

\* model.get_query_features(query_points, feature_grid, hires_feats): one
\* entry per resolution, each holding one feature per query point.
get_query_features(qp, fg, hf) ==
    [query_feats |-> [l \in 1..(pyramid_level + 1) |-> [points |-> qp, feat |-> fg]],
     hires_query_feats |-> [l \in 1..(pyramid_level + 1) |-> [points |-> qp, feat |-> hf]]]

\* model.construct_initial_causal_state(num_points, num_resolutions): zeroed
\* recurrent slots, one per query point per layer.
construct_initial_causal_state(n, levels) ==
    [slots |-> n, levels |-> levels, step |-> 0, acc |-> 0]

\* model.estimate_trajectories(...): per resolution, a track, an occlusion
\* logit and an expected-distance logit for every query point, and the
\* updated causal context.
estimate_trajectories(size, fg, hf, qf, hqf, chunk, ctx) ==
    LET P == Len(qf[1].points)
        qp == qf[1].points
        L == Len(qf)
        Result(acc) ==
            [tracks |-> [l \in 1..L |-> [i \in 1..P |->
                            << <<(qp[i][3] + acc + l) % size[2], 1>>,
                               <<(qp[i][2] + acc) % size[1], 1>> >>]],
             occlusion |-> [l \in 1..L |-> [i \in 1..P |-> <<(acc + i + l) % 2, 1>>]],
             expected_dist |-> [l \in 1..L |-> [i \in 1..P |-> <<(ctx.step + 1 + i) % 2, 2>>]],
             causal_context |-> [ctx EXCEPT !.step = @ + 1, !.acc = acc]]
    IN  CHOOSE res \in {Result(acc) : acc \in {(2 * ctx.acc + fg + qf[1].feat + 1) % 5}} : TRUE

\* ------------------------------------------------------ the model wrappers
\* The literal configuration of __main__, scaled down by the bounds.
resize_height == ResizeDim
resize_width == ResizeDim
num_points == GridSide * GridSide

\* online_model_init(frame, query_points)
online_model_init(img, qp) ==
    CHOOSE res \in
        {get_query_features(qp, g.feature_grid, g.hires_feats)
            : g \in {get_feature_grids(
                        preprocess_frame(img, <<resize_height, resize_width>>))}}
        : TRUE

\* Lines 90-94 on the trajectories tr: the last resolution is kept.
FinalResolution(tr) ==
    [tracks |-> tr.tracks[Len(tr.tracks)],
     visibles |-> postprocess_occlusions(tr.occlusion[Len(tr.occlusion)],
                                         tr.expected_dist[Len(tr.expected_dist)]),
     causal_context |-> tr.causal_context]

\* online_model_predict(frame, query_feats, hires_query_feats, causal_context)
online_model_predict(img, qf, hqf, ctx) ==
    CHOOSE res \in
        {FinalResolution(estimate_trajectories(<<resize_height, resize_width>>,
                             g.feature_grid, g.hires_feats, qf, hqf,
                             query_chunk_size, ctx))
            : g \in {get_feature_grids(
                        preprocess_frame(img, <<resize_height, resize_width>>))}}
        : TRUE

\* ------------------------------------------------------------------ state
VARIABLES
    \* the environment of a run
    device,         \* "cuda" or "cpu" (lines 9-12)
    video,          \* the frames of the file, in order: BGR images
    badFrame,       \* 1-based index of a frame that fails to decode, 0: none
    \* the program's variables
    pc,             \* position in __main__
    width, height,  \* cap.get(...) (lines 107-108)
    pos,            \* CAP_PROP_POS_FRAMES: 0-based index of the next frame
    query_points, point_colors,
    query_feats, hires_query_feats,
    causal_state,
    predictions, frames,
    ret, frame, tracks, visibles,
    heap,           \* the objects: frames, tensors and arrays
    \* history, for stating properties
    calls,          \* one record per online_model_predict call
    initCalls,      \* number of online_model_init calls
    initResult,     \* what online_model_init returned
    loopReads,      \* number of cap.read() calls made by the loop
    shown,          \* one snapshot per cv2.imshow call
    colors0,        \* point_colors as assigned at line 112
    quit,           \* the quit key was observed
    \* application of one pure function
    fn, inp, out

envVars == <<device, video, badFrame>>
progVars == <<pc, width, height, pos, query_points, point_colors, query_feats,
              hires_query_feats, causal_state, predictions, frames, ret, frame,
              tracks, visibles, heap>>
histVars == <<calls, initCalls, initResult, loopReads, shown, colors0, quit>>
pureVars == <<fn, inp, out>>
vars == <<envVars, progVars, histVars, pureVars>>

None == [kind |-> "None"]

\* Samples used to build frames: both ends of the 8-bit range and values
\* between them.
SampleVals == <<0, 255, 128, 1, 254>>

\* An h x w BGR image whose samples follow pattern s.
MkImage(h, w, s) ==
    [r \in 1..h |-> [c \in 1..w |->
        [ch \in 1..3 |-> SampleVals[((((r - 1) * w + (c - 1)) * 3 + ch + s) % 5) + 1]]]]

\* Frame sizes of the video files considered: the working resolution or
\* twice it, per axis.
VideoDims == {ResizeDim, 2 * ResizeDim}

Videos ==
    UNION {{[k \in 1..n |-> MkImage(h, w, (s + k) % 2)] : s \in 0..1, h \in VideoDims, w \in VideoDims}
           : n \in 0..MaxFrames}

\* np.random.randint(0, 255, (num_points, 3)): tables of values in 0..254.
Palettes ==
    {[i \in 1..num_points |-> <<(i * s) % 255, (i + s) % 255, (254 * s * i) % 255>>]
        : s \in 1..NumPalettes}

Init ==
    /\ device \in {"cuda", "cpu"}
    /\ video \in Videos
    /\ badFrame \in 0..Len(video)
    /\ pc = "start"
    /\ width = 0 /\ height = 0 /\ pos = 0
    /\ query_points = None /\ point_colors = None
    /\ query_feats = None /\ hires_query_feats = None
    /\ causal_state = None
    /\ predictions = <<>> /\ frames = <<>>
    /\ ret = FALSE /\ frame = 0 /\ tracks = 0 /\ visibles = 0
    /\ heap = <<>>
    /\ calls = <<>> /\ initCalls = 0 /\ initResult = None
    /\ loopReads = 0 /\ shown = <<>> /\ colors0 = None /\ quit = FALSE
    /\ fn = "none" /\ inp = None /\ out = None

\* ------------------------------------------------------------ VideoCapture
\* cap.isOpened(): the file was opened and holds a decodable stream.
CapIsOpened == Len(video) > 0

\* cap.read() succeeds: there is a next frame and it decodes.
CapReadOk == CapIsOpened /\ pos < Len(video) /\ pos + 1 # badFrame

\* The object cap.read() returns on success.
NewFrame == [kind |-> "frame", src |-> pos, img |-> video[pos + 1], marks |-> <<>>]

\* cap.set(cv2.CAP_PROP_POS_FRAMES, 0)
CapRewind_Skip == pos

CapRewind == 0

\* ---------------------------------------------------------------- __main__
\* ord('q')
OrdQ == 113
\* Key codes cv2.waitKey may return: -1 on timeout, or a key, possibly with
\* modifier bits above the low byte.
KeyCodes == {-1, OrdQ, OrdQ + 256, 97}

\* Lines 97-112: configuration, model, capture, query points, colours.
Setup ==
    /\ pc = "start"
    /\ width' = (IF CapIsOpened THEN ImgW(video[1]) ELSE 0)
    /\ height' = (IF CapIsOpened THEN ImgH(video[1]) ELSE 0)
    /\ \E t \in TimeColumns(0, num_points) :
         LET r == sample_random_points(t, resize_height, resize_width, num_points)
         IN  /\ query_points' = r.points
             /\ pc' = (IF r.error # "" THEN "error" ELSE "init")
    /\ \E c \in Palettes : point_colors' = c /\ colors0' = c
    /\ UNCHANGED <<envVars, pureVars, pos, query_feats, hires_query_feats,
                   causal_state, predictions, frames, ret, frame, tracks,
                   visibles, heap, calls, initCalls, initResult, loopReads,
                   shown, quit>>

\* Lines 115-116: read the first frame and initialise the query features.
\* A failed read leaves frame = None and preprocess_frame raises.
InitQueryFeatures ==
    /\ pc = "init"
    /\ initCalls' = initCalls + 1
    /\ IF CapReadOk
         THEN \E r \in {online_model_init(video[pos + 1], query_points)} :
                  /\ ret' = TRUE
                  /\ heap' = Append(heap, NewFrame)
                  /\ frame' = Len(heap) + 1
                  /\ pos' = pos + 1
                  /\ query_feats' = r.query_feats
                  /\ hires_query_feats' = r.hires_query_feats
                  /\ initResult' = r
                  /\ pc' = "rewind"
         ELSE /\ ret' = FALSE
              /\ frame' = 0
              /\ pc' = "error"
              /\ UNCHANGED <<heap, pos, query_feats, hires_query_feats, initResult>>
    /\ UNCHANGED <<envVars, pureVars, width, height, query_points, point_colors,
                   causal_state, predictions, frames, tracks, visibles, calls,
                   loopReads, shown, colors0, quit>>

\* Line 118: cap.set(cv2.CAP_PROP_POS_FRAMES, 0).
Rewind ==
    /\ pc = "rewind"
    /\ pos' = CapRewind
    /\ pc' = "mkstate"
    /\ UNCHANGED <<envVars, pureVars, histVars, width, height, query_points,
                   point_colors, query_feats, hires_query_feats, causal_state,
                   predictions, frames, ret, frame, tracks, visibles, heap>>

\* Lines 120-126: the initial causal state, moved to the device, and the
\* empty logs.
MakeCausalState ==
    /\ pc = "mkstate"
    /\ causal_state' = construct_initial_causal_state(Len(query_points),
                                                      Len(query_feats) - 1)
    /\ predictions' = <<>>
    /\ frames' = <<>>
    /\ pc' = "loop"
    /\ UNCHANGED <<envVars, pureVars, histVars, width, height, pos, query_points,
                   point_colors, query_feats, hires_query_feats, ret, frame,
                   tracks, visibles, heap>>

AfterFailedRead_Continue == "loop"

\* Lines 129-130: if not ret: break.
AfterFailedRead == "done"

\* Lines 127-130: the loop test, cap.read() and the break on a failed read.
ReadFrame ==
    /\ pc = "loop"
    /\ IF ~CapIsOpened
         THEN /\ pc' = "done"
              /\ UNCHANGED <<ret, frame, heap, pos, loopReads>>
         ELSE /\ loopReads' = loopReads + 1
              /\ IF CapReadOk
                   THEN /\ ret' = TRUE
                        /\ heap' = Append(heap, NewFrame)
                        /\ frame' = Len(heap) + 1
                        /\ pos' = pos + 1
                        /\ pc' = "predict"
                   ELSE /\ ret' = FALSE
                        /\ frame' = 0
                        /\ pc' = AfterFailedRead
                        /\ UNCHANGED <<heap, pos>>
    /\ UNCHANGED <<envVars, pureVars, width, height, query_points, point_colors,
                   query_feats, hires_query_feats, causal_state, predictions,
                   frames, tracks, visibles, calls, initCalls, initResult,
                   shown, colors0, quit>>

\* A tensor the model returns, on the run's device.
Tensor(data) == [kind |-> "tensor", dev |-> device, data |-> data]

AssignedCausalState_Stale(r, old) == old

\* Line 133, left-hand side: causal_state is rebound to the returned context.
AssignedCausalState(r, old) == r.causal_context

PassedQueryFeats_Recomputed ==
    online_model_init(heap[frame].img, query_points).query_feats

\* Line 133, arguments: the query features passed to the call.
PassedQueryFeats == query_feats

\* Line 133: tracks, visibles, causal_state = online_model_predict(...).
Predict ==
    /\ pc = "predict"
    /\ \E r \in {online_model_predict(heap[frame].img, PassedQueryFeats,
                                       hires_query_feats, causal_state)} :
           /\ heap' = heap \o <<Tensor(r.tracks), Tensor(r.visibles)>>
           /\ tracks' = Len(heap) + 1
           /\ visibles' = Len(heap) + 2
           /\ causal_state' = AssignedCausalState(r, causal_state)
           /\ calls' = Append(calls,
                  [frame |-> heap[frame].src,
                   query_feats |-> PassedQueryFeats,
                   hires_query_feats |-> hires_query_feats,
                   causal_context |-> causal_state,
                   returned |-> r])
    /\ pc' = "log"
    /\ UNCHANGED <<envVars, pureVars, width, height, pos, query_points,
                   point_colors, query_feats, hires_query_feats, predictions,
                   frames, ret, frame, initCalls, initResult, loopReads, shown,
                   colors0, quit>>

LogPrediction_PollFirst ==
    /\ pc = "log"
    /\ \E key \in KeyCodes :
         IF key % 256 = OrdQ
           THEN /\ quit' = TRUE
                /\ pc' = "done"
                /\ UNCHANGED <<frames, predictions>>
           ELSE /\ frames' = Append(frames, frame)
                /\ predictions' = Append(predictions,
                                         [tracks |-> tracks, visibles |-> visibles])
                /\ pc' = "numpy"
                /\ UNCHANGED quit
    /\ UNCHANGED <<envVars, pureVars, width, height, pos, query_points,
                   point_colors, query_feats, hires_query_feats, causal_state,
                   ret, frame, tracks, visibles, heap, calls, initCalls,
                   initResult, loopReads, shown, colors0>>

\* Lines 135-136: the frame and the prediction are appended to the logs.  The
\* lists hold the objects themselves, not copies.
LogPrediction ==
    /\ pc = "log"
    /\ frames' = Append(frames, frame)
    /\ predictions' = Append(predictions, [tracks |-> tracks, visibles |-> visibles])
    /\ pc' = "numpy"
    /\ UNCHANGED <<envVars, pureVars, histVars, width, height, pos, query_points,
                   point_colors, query_feats, hires_query_feats, causal_state,
                   ret, frame, tracks, visibles, heap>>

\* t.cpu().numpy().squeeze() for the tensor at address a, with the heap h it
\* leaves and the address of the result.  Tensor.cpu() returns the tensor
\* itself when it is already in host memory and a copy otherwise; numpy() and
\* squeeze() return views of the same memory.
CpuNumpySqueeze(h, a) ==
    IF h[a].dev = "cpu"
      THEN [heap |-> h, addr |-> a]
      ELSE [heap |-> Append(h, [kind |-> "ndarray", dev |-> "cpu", data |-> h[a].data]),
            addr |-> Len(h) + 1]

\* Lines 138-139: visibles and tracks are rebound to numpy arrays.
ToNumpy ==
    /\ pc = "numpy"
    /\ LET v == CpuNumpySqueeze(heap, visibles)
           t == CpuNumpySqueeze(v.heap, tracks)
       IN  /\ visibles' = v.addr
           /\ tracks' = t.addr
           /\ heap' = t.heap
    /\ pc' = "rescale"
    /\ UNCHANGED <<envVars, pureVars, histVars, width, height, pos, query_points,
                   point_colors, query_feats, hires_query_feats, causal_state,
                   predictions, frames, ret, frame>>

\* tracks[:, 0] * width / resize_width and tracks[:, 1] * height / resize_height
\* on one row.
RescalePoint(p) ==
    <<Norm(<<p[1][1] * width, p[1][2] * resize_width>>),
      Norm(<<p[2][1] * height, p[2][2] * resize_height>>)>>

\* Lines 140-141: the two columns of the array are overwritten in place.  With
\* a single query point squeeze() also drops the point axis and the
\* two-index subscript raises IndexError.
Rescale ==
    /\ pc = "rescale"
    /\ IF Len(heap[tracks].data) = 1
         THEN /\ pc' = "error"
              /\ UNCHANGED heap
         ELSE /\ heap' = [heap EXCEPT ![tracks].data =
                            [i \in 1..Len(@) |-> RescalePoint(@[i])]]
              /\ pc' = "draw"
    /\ UNCHANGED <<envVars, pureVars, histVars, width, height, pos, query_points,
                   point_colors, query_feats, hires_query_feats, causal_state,
                   predictions, frames, ret, frame, tracks, visibles>>

\* Line 143: frame = draw_points(frame, tracks, visibles, point_colors); the
\* circles are drawn on the frame object itself.
Draw ==
    /\ pc = "draw"
    /\ heap' = [heap EXCEPT ![frame].marks =
                  draw_points(@, heap[tracks].data, heap[visibles].data, point_colors)]
    /\ pc' = "show"
    /\ UNCHANGED <<envVars, pureVars, histVars, width, height, pos, query_points,
                   point_colors, query_feats, hires_query_feats, causal_state,
                   predictions, frames, ret, frame, tracks, visibles>>

\* Line 145: cv2.imshow('frame', frame).
Show ==
    /\ pc = "show"
    /\ shown' = Append(shown, [frame |-> heap[frame],
                               points |-> heap[tracks].data,
                               visible |-> heap[visibles].data,
                               colors |-> point_colors])
    /\ pc' = "waitkey"
    /\ UNCHANGED <<envVars, pureVars, width, height, pos, query_points,
                   point_colors, query_feats, hires_query_feats, causal_state,
                   predictions, frames, ret, frame, tracks, visibles, heap,
                   calls, initCalls, initResult, loopReads, colors0, quit>>

\* Lines 146-147: if cv2.waitKey(30) & 0xFF == ord('q'): break.
WaitKey ==
    /\ pc = "waitkey"
    /\ \E key \in KeyCodes :
         IF key % 256 = OrdQ
           THEN quit' = TRUE /\ pc' = "done"
           ELSE quit' = quit /\ pc' = "loop"
    /\ UNCHANGED <<envVars, pureVars, width, height, pos, query_points,
                   point_colors, query_feats, hires_query_feats, causal_state,
                   predictions, frames, ret, frame, tracks, visibles, heap,
                   calls, initCalls, initResult, loopReads, shown, colors0>>

Next ==
    \/ Setup
    \/ InitQueryFeatures
    \/ Rewind
    \/ MakeCausalState
    \/ ReadFrame
    \/ Predict
    \/ LogPrediction
    \/ ToNumpy
    \/ Rescale
    \/ Draw
    \/ Show
    \/ WaitKey

Spec == Init /\ [][Next]_vars

\* ------------------------------------------- the pure functions on their own
\* Logits as odds p : q, not both zero.
Logits == {<<p, q>> : p \in 0..MaxOdds, q \in 0..MaxOdds} \ {<<0, 0>>}

SampleInputs ==
    {[frame_max_idx |-> f, height |-> h, width |-> w, num_points |-> n] :
        f \in 0..1, h \in 1..MaxDim, w \in 1..MaxDim, n \in 0..MaxPoints}

PreprocessInputs ==
    {[frame |-> MkImage(h, w, s), resize |-> <<rh, rw>>] :
        h \in 1..MaxDim, w \in 1..MaxDim, s \in 0..4,
        rh \in 1..MaxDim, rw \in 1..MaxDim}

PostprocessInputs ==
    {[occlusions |-> <<a>>, expected_dist |-> <<b>>] : a \in Logits, b \in Logits}
    \cup {[occlusions |-> <<a, b>>, expected_dist |-> <<a, b>>] : a \in Logits, b \in Logits}

\* The program is not running; one function is about to be applied to one
\* input.
InitPure ==
    /\ device = "cpu" /\ video = <<>> /\ badFrame = 0
    /\ pc = "idle"
    /\ width = 0 /\ height = 0 /\ pos = 0
    /\ query_points = None /\ point_colors = None
    /\ query_feats = None /\ hires_query_feats = None
    /\ causal_state = None
    /\ predictions = <<>> /\ frames = <<>>
    /\ ret = FALSE /\ frame = 0 /\ tracks = 0 /\ visibles = 0
    /\ heap = <<>>
    /\ calls = <<>> /\ initCalls = 0 /\ initResult = None
    /\ loopReads = 0 /\ shown = <<>> /\ colors0 = None /\ quit = FALSE
    /\ \/ fn = "sample_random_points" /\ inp \in SampleInputs
       \/ fn = "preprocess_frame" /\ inp \in PreprocessInputs
       \/ fn = "postprocess_occlusions" /\ inp \in PostprocessInputs
    /\ out = [done |-> FALSE]

ApplySample ==
    /\ fn = "sample_random_points" /\ ~out.done
    /\ \E t \in TimeColumns(inp.frame_max_idx, inp.num_points) :
         out' = [done |-> TRUE,
                 value |-> sample_random_points(t, inp.height, inp.width, inp.num_points)]
    /\ UNCHANGED <<envVars, progVars, histVars, fn, inp>>

ApplyPreprocess ==
    /\ fn = "preprocess_frame" /\ ~out.done
    /\ out' = [done |-> TRUE, value |-> preprocess_frame(inp.frame, inp.resize)]
    /\ UNCHANGED <<envVars, progVars, histVars, fn, inp>>

ApplyPostprocess ==
    /\ fn = "postprocess_occlusions" /\ ~out.done
    /\ out' = [done |-> TRUE,
               value |-> postprocess_occlusions(inp.occlusions, inp.expected_dist)]
    /\ UNCHANGED <<envVars, progVars, histVars, fn, inp>>

NextPure == ApplySample \/ ApplyPreprocess \/ ApplyPostprocess

SpecPure == InitPure /\ [][NextPure]_vars

\* ----------------------------------------------------------------- claims
\* Positions of __main__ inside the streaming loop (lines 127-147) or after it.
InLoop == pc \in {"loop", "predict", "log", "numpy", "rescale", "draw", "show",
                  "waitkey", "done"}

\* The causal context the last online_model_predict call returned, or the
\* initial one when no call was made yet.
LastReturnedState ==
    IF Len(calls) = 0
      THEN construct_initial_causal_state(num_points, pyramid_level)
      ELSE calls[Len(calls)].returned.causal_context

\* C1: the first online_model_predict call receives the state built by
\* construct_initial_causal_state, the k-th call (k >= 2) receives exactly the
\* state the (k-1)-th call returned, and during the loop causal_state always
\* holds the state returned by the latest call: it is replaced once per
\* successfully read frame (one call per frame read) and by nothing else.
C1_StateThreading ==
    /\ \A k \in 1..Len(calls) :
         calls[k].causal_context =
            (IF k = 1 THEN construct_initial_causal_state(num_points, pyramid_level)
                      ELSE calls[k - 1].returned.causal_context)
    /\ InLoop => causal_state = LastReturnedState
    /\ InLoop => Len(calls) = (IF pc = "predict" THEN pos - 1 ELSE pos)

\* C1 witness: the run ended after three calls, so a third call received the
\* second call's state.
C1_Witness == pc = "done" /\ Len(calls) >= 3

\* C2: online_model_init is called exactly once, before the first
\* online_model_predict call, and every call is passed the query_feats and
\* hires_query_feats it returned, which no step reassigns.
C2_InitOnceFeatsUnchanged ==
    /\ initCalls <= 1
    /\ InLoop => initCalls = 1
    /\ Len(calls) > 0 => initCalls = 1
    /\ \A k \in 1..Len(calls) :
         /\ calls[k].query_feats = initResult.query_feats
         /\ calls[k].hires_query_feats = initResult.hires_query_feats
    /\ InLoop => /\ query_feats = initResult.query_feats
                 /\ hires_query_feats = initResult.hires_query_feats

\* C2 witness: two calls were made on frames with different content.
C2_Witness ==
    /\ Len(calls) >= 2
    /\ video[1] # video[2]

\* C3: a video of N frames that all decode, run without a quit key, ends with
\* exactly N predictions, the k-th made from frame k - 1 of the file: frame 0,
\* used for initialisation, is processed again by the first step.
C3_OnePredictionPerFrame ==
    (pc = "done" /\ ~quit /\ badFrame = 0) =>
        /\ Len(predictions) = Len(video)
        /\ Len(calls) = Len(video)
        /\ \A k \in 1..Len(calls) :
             /\ calls[k].frame = k - 1
             /\ heap[predictions[k].visibles].data = calls[k].returned.visibles

\* C3 witness: such a run over a video of at least two frames has ended.
C3_Witness ==
    pc = "done" /\ ~quit /\ badFrame = 0 /\ Len(video) >= 2 /\ Len(predictions) >= 2

\* C5 (as claimed): the tracks and visibles stored in predictions[k] stay equal
\* to what the k-th online_model_predict call returned.
C5_PredictionsNeverMutated ==
    \A k \in 1..Len(predictions) :
        /\ heap[predictions[k].tracks].data = calls[k].returned.tracks
        /\ heap[predictions[k].visibles].data = calls[k].returned.visibles

\* C8: a failed read in the loop, at the end of the file or before it, moves
\* the loop to its end without an error, appends no prediction, leaves the
\* causal state and the logged predictions as they were, and no frame is read
\* after it.
C8_FailedReadEndsStream ==
    [][ /\ (pc = "loop" /\ ~CapReadOk) =>
            /\ pc' = "done"
            /\ ret' = FALSE
            /\ predictions' = predictions
            /\ heap' = heap
            /\ calls' = calls
            /\ causal_state' = causal_state
        /\ pc = "done" => (loopReads' = loopReads /\ pos' = pos) ]_vars

\* C8 witness: the loop ended on a frame that failed to decode in mid-stream,
\* after at least one prediction.
C8_Witness ==
    /\ pc = "done" /\ ~quit /\ ~ret
    /\ badFrame > 1 /\ badFrame < Len(video)
    /\ Len(predictions) = badFrame - 1

\* C9: whenever the loop is about to read a frame, and whenever quit has been
\* observed, every frame read so far has been predicted, logged and displayed:
\* after k frames the log holds exactly k predictions.
C9_StepCompletesBeforeQuit ==
    /\ pc = "loop" =>
         (Len(calls) = pos /\ Len(predictions) = pos /\ Len(shown) = pos)
    /\ quit =>
         /\ pc = "done"
         /\ Len(calls) = pos /\ Len(predictions) = pos /\ Len(frames) = pos
         /\ Len(shown) = pos
    /\ Len(shown) <= Len(predictions) /\ Len(predictions) <= Len(calls)

\* C9 witness: quit was observed after the second frame of a longer video.
C9_Witness == quit /\ pos = 2 /\ Len(video) > 2 /\ Len(predictions) = 2

\* C10: in every displayed frame a circle was drawn for point i exactly when
\* visible[i] held, once, in the colour given to point i at line 112, and the
\* colour table never changes afterwards.
C10_DrawsExactlyVisible ==
    /\ \A k \in 1..Len(shown) :
         LET marks == shown[k].frame.marks
         IN  /\ \A i \in 1..num_points :
                  shown[k].visible[i] <=> (\E m \in 1..Len(marks) : marks[m].point = i)
             /\ \A m \in 1..Len(marks) : marks[m].color = colors0[marks[m].point]
             /\ \A m, n \in 1..Len(marks) : marks[m].point = marks[n].point => m = n
    /\ pc \notin {"start", "idle"} => point_colors = colors0

\* C10 witness: a displayed frame with a drawn point and a skipped point.
C10_Witness ==
    \E k \in 1..Len(shown) :
        /\ \E i \in 1..num_points : shown[k].visible[i]
        /\ \E i \in 1..num_points : ~shown[k].visible[i]
        /\ Len(shown[k].frame.marks) > 0

\* C4 (as claimed): sample_random_points yields exactly num_points (t, y, x)
\* triples, and every logged prediction has num_points tracks and num_points
\* visibility flags.
C4_PointCountFixed ==
    /\ (fn = "sample_random_points" /\ out.done) =>
         /\ out.value.error = ""
         /\ Len(out.value.points) = inp.num_points
         /\ \A k \in 1..Len(out.value.points) : Len(out.value.points[k]) = 3
    /\ \A k \in 1..Len(predictions) :
         /\ Len(heap[predictions[k].tracks].data) = num_points
         /\ Len(heap[predictions[k].visibles].data) = num_points

\* C6 (as claimed): for a target (height, width) the tensor preprocess_frame
\* returns has shape (1, 3, height, width) and values in [-1, 1], with sample
\* 0 mapped to -1 and sample 255 to 1.
C6_PreprocessShapeAndRange ==
    /\ Normalize255(0) = <<-1, 1>> /\ Normalize255(255) = <<1, 1>>
    /\ (fn = "preprocess_frame" /\ out.done) =>
         /\ Shape4(out.value) = <<1, 3, inp.resize[1], inp.resize[2]>>
         /\ \A ch \in 1..3 : \A r \in 1..Len(out.value[1][ch]) :
              \A c \in 1..Len(out.value[1][ch][r]) :
                 /\ RLeq(<<-1, 1>>, out.value[1][ch][r][c])
                 /\ RLeq(out.value[1][ch][r][c], <<1, 1>>)

\* C7: postprocess_occlusions marks a point visible exactly when
\* (1 - sigmoid(occlusion)) * (1 - sigmoid(expected_dist)) > 1/2, that is, for
\* odds po : qo and pe : qe, when 2 * qo * qe > (po + qo) * (pe + qe); it is
\* visible when both logits are -infinity, not visible when both are
\* +infinity, and never visible unless both sigmoids are below 1/2.
C7_VisibleIffProductAboveHalf ==
    (fn = "postprocess_occlusions" /\ out.done) =>
        /\ Len(out.value) = Len(inp.occlusions)
        /\ \A i \in 1..Len(inp.occlusions) :
             LET o == inp.occlusions[i]
                 e == inp.expected_dist[i]
             IN  /\ out.value[i] <=> (2 * o[2] * e[2] > (o[1] + o[2]) * (e[1] + e[2]))
                 /\ (o[1] = 0 /\ e[1] = 0) => out.value[i]
                 /\ (o[2] = 0 /\ e[2] = 0) => ~out.value[i]
                 /\ out.value[i] => (o[1] < o[2] /\ e[1] < e[2])

\* C7 witness: one call classified a point with both logits at -infinity as
\* visible and a point with both at +infinity as not visible.
C7_Witness ==
    /\ fn = "postprocess_occlusions" /\ out.done
    /\ inp.occlusions = << <<0, 1>>, <<1, 0>> >>
    /\ inp.expected_dist = << <<0, 1>>, <<1, 0>> >>
    /\ out.value = <<TRUE, FALSE>>

====
